---------------------------- MODULE Spec2Model ----------------------------
(***************************************************************************)
(* A model of the wave-function-collapse pipe-tile solver of src/main.rs:  *)
(* the tile set (State), the per-cell Domain, the Field with its           *)
(* collapse_random and propagate operations, and the solver loop of main.  *)
(***************************************************************************)
EXTENDS Integers, Sequences, FiniteSets, TLC

\* Largest grid side of the solver runs explored (main uses Field::new(15)).
MaxSize == 2

\* Largest number of cells of a fresh grid that a directly called operation
\* finds already set to another value.
MaxForced == 3

\* The grid sides on which propagate is called directly.
PropagateSides == {1, 2, 3}

\* The grid sides on which collapse_random is called directly.
CollapseSides == {1, 2}

\* The longest list of states, short of all of them, that collapse is called on.
MaxList == 3

(***************************************************************************)
(* State: the closed enum of tile orientations.                            *)
(***************************************************************************)
StateAll == <<"Empty", "BL", "BLT", "BLR", "BT", "BTR", "BR", "LT", "LTR", "LR", "TR", "BLTR">>

States == {StateAll[i] : i \in 1..Len(StateAll)}

StateCount == Len(StateAll)

connects_left(s) == s \in {"BL", "BLT", "BLR", "LT", "LTR", "LR", "BLTR"}

connects_right(s) == s \in {"BLR", "BTR", "BR", "LTR", "LR", "TR", "BLTR"}

connects_top(s) == s \in {"BLT", "BT", "BTR", "LT", "LTR", "TR", "BLTR"}

connects_bottom(s) == s \in {"BL", "BLT", "BLR", "BT", "BTR", "BR", "BLTR"}

fits_left(self, other) == connects_left(self) = connects_right(other)

fits_bottom(self, other) == connects_bottom(self) = connects_top(other)

\* A fits_right comparing the same arm of both tiles.
fits_right_same_arm(self, other) == connects_right(self) = connects_right(other)

fits_right(self, other) == fits_left(other, self)

fits_top(self, other) == fits_bottom(other, self)

(***************************************************************************)
(* Domain: Collapsed(State), Superposition(Vec<State>) or Invalid.  Every  *)
(* value is a record of the same shape; the unused payload is NoState or   *)
(* the empty sequence.                                                     *)
(***************************************************************************)
NoState == "-"

Collapsed(s) == [tag |-> "Collapsed", s |-> s, v |-> <<>>]

Superposition(v) == [tag |-> "Superposition", s |-> NoState, v |-> v]

Invalid == [tag |-> "Invalid", s |-> NoState, v |-> <<>>]

\* Option::None and the error values, as values of the same shape.
None == [tag |-> "None", s |-> NoState, v |-> <<>>]

OutOfBoundsError == [tag |-> "OutOfBoundsError", s |-> NoState, v |-> <<>>]

\* Result<usize, InvalidDomainError>
Ok(n) == [err |-> FALSE, val |-> n]

Err == [err |-> TRUE, val |-> 0]

DomainDefault == Superposition(StateAll)

\* An enthropy that is 1 for every Superposition (Superposition(_) => Ok(1)).
enthropy_counts_cells(d) ==
  CASE d.tag = "Invalid" -> Err
    [] d.tag = "Collapsed" -> Ok(0)
    [] OTHER -> Ok(1)

\* Domain::enthropy: Err for Invalid, 0 for Collapsed, the length for Superposition.
enthropy(d) ==
  CASE d.tag = "Invalid" -> Err
    [] d.tag = "Collapsed" -> Ok(0)
    [] OTHER -> Ok(Len(d.v))

\* A collapse that always takes the first state of the list.
collapse_first(d) ==
  CASE d.tag = "Collapsed" -> {d}
    [] d.tag = "Superposition" ->
         IF Len(d.v) = 0 THEN {Invalid} ELSE {Collapsed(d.v[1])}
    [] OTHER -> {d}

\* Domain::collapse: the set of values the cell may hold afterwards.
collapse(d) ==
  CASE d.tag = "Collapsed" -> {d}
    [] d.tag = "Superposition" ->
         IF Len(d.v) = 0 THEN {Invalid}
         ELSE {Collapsed(d.v[i]) : i \in 1..Len(d.v)}
    [] OTHER -> {d}

(***************************************************************************)
(* Field                                                                   *)
(***************************************************************************)
Cells(sz) == 0..(sz * sz - 1)

FieldNew(sz) == [i \in Cells(sz) |-> DomainDefault]

\* A get that checks only y against the side (if y < self.size).
get_unchecked_x(sz, ds, x, y) ==
  IF y < sz
    THEN (IF (y * sz + x) \in DOMAIN ds THEN ds[y * sz + x] ELSE OutOfBoundsError)
    ELSE OutOfBoundsError

\* Field::get / get_mut: the cell, or OutOfBoundsError.
get(sz, ds, x, y) ==
  IF x < sz /\ y < sz
    THEN (IF (y * sz + x) \in DOMAIN ds THEN ds[y * sz + x] ELSE OutOfBoundsError)
    ELSE OutOfBoundsError

\* An ok that turns the error into an Invalid neighbour instead of None.
ok_as_invalid(r) == IF r = OutOfBoundsError THEN Invalid ELSE r

\* Result::ok
ok(r) == IF r = OutOfBoundsError THEN None ELSE r


\* The four match arms of is_allowed_state: "Err", "true" or "false".
left_allows(state, left) ==
  CASE left.tag = "Invalid" -> "Err"
    [] left.tag = "Collapsed" ->
         IF fits_left(state, left.s) THEN "true" ELSE "false"
    [] left.tag = "Superposition" ->
         IF \E i \in 1..Len(left.v) : fits_left(state, left.v[i])
           THEN "true" ELSE "false"
    [] OTHER -> "true"

\* The right arm with all() in place of any() over a Superposition.
right_allows_universal(state, right) ==
  CASE right.tag = "Invalid" -> "Err"
    [] right.tag = "Collapsed" ->
         IF fits_right(state, right.s) THEN "true" ELSE "false"
    [] right.tag = "Superposition" ->
         IF \A i \in 1..Len(right.v) : fits_right(state, right.v[i])
           THEN "true" ELSE "false"
    [] OTHER -> "true"

right_allows(state, right) ==
  CASE right.tag = "Invalid" -> "Err"
    [] right.tag = "Collapsed" ->
         IF fits_right(state, right.s) THEN "true" ELSE "false"
    [] right.tag = "Superposition" ->
         IF \E i \in 1..Len(right.v) : fits_right(state, right.v[i])
           THEN "true" ELSE "false"
    [] OTHER -> "true"

bottom_allows(state, bottom) ==
  CASE bottom.tag = "Invalid" -> "Err"
    [] bottom.tag = "Collapsed" ->
         IF fits_bottom(state, bottom.s) THEN "true" ELSE "false"
    [] bottom.tag = "Superposition" ->
         IF \E i \in 1..Len(bottom.v) : fits_bottom(state, bottom.v[i])
           THEN "true" ELSE "false"
    [] OTHER -> "true"

top_allows(state, top) ==
  CASE top.tag = "Invalid" -> "Err"
    [] top.tag = "Collapsed" ->
         IF fits_top(state, top.s) THEN "true" ELSE "false"
    [] top.tag = "Superposition" ->
         IF \E i \in 1..Len(top.v) : fits_top(state, top.v[i])
           THEN "true" ELSE "false"
    [] OTHER -> "true"

\* is_allowed_state: left && right && bottom && top, short-circuiting; an
\* Invalid neighbour returns Err only when its arm is evaluated.
is_allowed_state(state, left, right, top, bottom) ==
  LET l == left_allows(state, left)
      r == right_allows(state, right)
      b == bottom_allows(state, bottom)
      t == top_allows(state, top)
  IN  IF l # "true" THEN l
      ELSE IF r # "true" THEN r
      ELSE IF b # "true" THEN b
      ELSE t

\* The four neighbour lookups of propagate for cell (x, y).
left_of(sz, ds, x, y) == IF x = 0 THEN None ELSE ok(get(sz, ds, x - 1, y))

right_of(sz, ds, x, y) == ok(get(sz, ds, x + 1, y))

top_of(sz, ds, x, y) == IF y = 0 THEN None ELSE ok(get(sz, ds, x, y - 1))

bottom_of(sz, ds, x, y) == ok(get(sz, ds, x, y + 1))

allowed(sz, ds, x, y, state) ==
  is_allowed_state(state, left_of(sz, ds, x, y), right_of(sz, ds, x, y),
                   top_of(sz, ds, x, y), bottom_of(sz, ds, x, y))

\* The match on allowed_states.len() without the arm 1 => Collapsed.
narrowed_keeps_singleton(allowed_states) ==
  CASE Len(allowed_states) = 0 -> Invalid
    [] OTHER -> Superposition(allowed_states)

\* The value written back for a Superposition cell from its allowed states.
narrowed(allowed_states) ==
  CASE Len(allowed_states) = 0 -> Invalid
    [] Len(allowed_states) = 1 -> Collapsed(allowed_states[1])
    [] OTHER -> Superposition(allowed_states)

\* allowed_states: the states of v from position i on whose test gave true,
\* in the order of v.
RECURSIVE pushed(_, _, _)
pushed(v, is_allowed, i) ==
  IF i > Len(v) THEN <<>>
  ELSE IF is_allowed[i] = "true"
    THEN <<v[i]>> \o pushed(v, is_allowed, i + 1)
    ELSE pushed(v, is_allowed, i + 1)

\* The loop body filtering State::all() instead of the cell's own states.
propagate_cell_from_all(sz, ds, x, y) ==
  LET current == get(sz, ds, x, y)
      at == y * sz + x
  IN  CASE current.tag = "Invalid" -> [err |-> TRUE, domains |-> ds]
        [] current.tag = "Collapsed" ->
             LET a == allowed(sz, ds, x, y, current.s)
             IN  IF a = "Err" THEN [err |-> TRUE, domains |-> ds]
                 ELSE IF a = "false"
                   THEN [err |-> FALSE, domains |-> [ds EXCEPT ![at] = Invalid]]
                   ELSE [err |-> FALSE, domains |-> ds]
        [] OTHER ->
             LET v == StateAll
                 keep(state) == allowed(sz, ds, x, y, state) = "true"
             IN  IF \E i \in 1..Len(v) : allowed(sz, ds, x, y, v[i]) = "Err"
                   THEN [err |-> TRUE, domains |-> ds]
                   ELSE [err |-> FALSE,
                         domains |-> [ds EXCEPT ![at] = narrowed(SelectSeq(v, keep))]]

\* The loop body without line 264's *current = Invalid for a Collapsed cell.
propagate_cell_keeps_tile(sz, ds, x, y) ==
  LET current == get(sz, ds, x, y)
      at == y * sz + x
  IN  CASE current.tag = "Invalid" -> [err |-> TRUE, domains |-> ds]
        [] current.tag = "Collapsed" ->
             LET a == allowed(sz, ds, x, y, current.s)
             IN  IF a = "Err" THEN [err |-> TRUE, domains |-> ds]
                 ELSE [err |-> FALSE, domains |-> ds]
        [] OTHER ->
             LET v == current.v
                 keep(state) == allowed(sz, ds, x, y, state) = "true"
             IN  IF \E i \in 1..Len(v) : allowed(sz, ds, x, y, v[i]) = "Err"
                   THEN [err |-> TRUE, domains |-> ds]
                   ELSE [err |-> FALSE,
                         domains |-> [ds EXCEPT ![at] = narrowed(SelectSeq(v, keep))]]

\* The body of propagate's loops for one cell: the grid afterwards, and
\* whether the function returned Err there.
propagate_cell(sz, ds, x, y) ==
  LET current == get(sz, ds, x, y)
      at == y * sz + x
  IN  CASE current.tag = "Invalid" -> [err |-> TRUE, domains |-> ds]
        [] current.tag = "Collapsed" ->
             LET a == allowed(sz, ds, x, y, current.s)
             IN  IF a = "Err" THEN [err |-> TRUE, domains |-> ds]
                 ELSE IF a = "false"
                   THEN [err |-> FALSE, domains |-> [ds EXCEPT ![at] = Invalid]]
                   ELSE [err |-> FALSE, domains |-> ds]
        [] OTHER ->
             LET v == current.v
             IN  CHOOSE out \in
                   { IF \E i \in 1..Len(v) : is_allowed[i] = "Err"
                       THEN [err |-> TRUE, domains |-> ds]
                       ELSE [err |-> FALSE,
                             domains |-> [ds EXCEPT ![at] =
                                            narrowed(pushed(v, is_allowed, 1))]] :
                     is_allowed \in {[i \in 1..Len(v) |-> allowed(sz, ds, x, y, v[i])]} } : TRUE

\* A sweep whose outer loop stops one row short (for y in 0..self.size - 1).
sweep_order_short(sz) == [k \in 1..(sz * (sz - 1)) |-> <<(k - 1) % sz, (k - 1) \div sz>>]

\* The order in which propagate visits the cells: y outer, x inner.
sweep_order(sz) == [k \in 1..(sz * sz) |-> <<(k - 1) % sz, (k - 1) \div sz>>]

RECURSIVE sweep_from(_, _, _)
sweep_from(sz, ds, k) ==
  IF k > Len(sweep_order(sz)) THEN [err |-> FALSE, domains |-> ds]
  ELSE LET xy == sweep_order(sz)[k]
       IN  CHOOSE out \in {IF r.err THEN r ELSE sweep_from(sz, r.domains, k + 1) :
                             r \in {propagate_cell(sz, ds, xy[1], xy[2])}} : TRUE

\* A propagate that evaluates every cell against the grid as it was before
\* the call and writes all results afterwards.
propagate_double_buffered(sz, ds) ==
  LET at(i) == propagate_cell(sz, ds, i % sz, i \div sz)
  IN  IF \E i \in Cells(sz) : at(i).err
        THEN [err |-> TRUE, domains |-> ds]
        ELSE [err |-> FALSE, domains |-> [i \in Cells(sz) |-> at(i).domains[i]]]

\* Field::propagate: one in-place sweep.
propagate(sz, ds) == sweep_from(sz, ds, 1)

\* A scan that keeps only the first cell found at the minimum (no push on a tie).
RECURSIVE scan_from_first_found(_, _, _, _, _)
scan_from_first_found(sz, ds, i, minimum_enthropy, minimum_enthropy_domains) ==
  IF i = sz * sz THEN [err |-> FALSE, cells |-> minimum_enthropy_domains]
  ELSE LET e == enthropy(ds[i])
       IN  IF e.err THEN [err |-> TRUE, cells |-> {}]
           ELSE IF e.val = 0
             THEN scan_from_first_found(sz, ds, i + 1, minimum_enthropy, minimum_enthropy_domains)
           ELSE IF e.val < minimum_enthropy
             THEN scan_from_first_found(sz, ds, i + 1, e.val, {i})
           ELSE scan_from_first_found(sz, ds, i + 1, minimum_enthropy, minimum_enthropy_domains)

\* A scan that steps over an Invalid cell instead of returning its error.
RECURSIVE scan_from_skips_invalid(_, _, _, _, _)
scan_from_skips_invalid(sz, ds, i, minimum_enthropy, minimum_enthropy_domains) ==
  IF i = sz * sz THEN [err |-> FALSE, cells |-> minimum_enthropy_domains]
  ELSE LET e == enthropy(ds[i])
       IN  IF e.err \/ e.val = 0
             THEN scan_from_skips_invalid(sz, ds, i + 1, minimum_enthropy, minimum_enthropy_domains)
           ELSE IF e.val < minimum_enthropy
             THEN scan_from_skips_invalid(sz, ds, i + 1, e.val, {i})
           ELSE IF e.val = minimum_enthropy
             THEN scan_from_skips_invalid(sz, ds, i + 1, minimum_enthropy,
                                          minimum_enthropy_domains \cup {i})
           ELSE scan_from_skips_invalid(sz, ds, i + 1, minimum_enthropy, minimum_enthropy_domains)

\* The scan of collapse_random: Err when the scan meets an Invalid cell,
\* otherwise the indices of the cells tied at the minimum nonzero enthropy.
RECURSIVE scan_from(_, _, _, _, _)
scan_from(sz, ds, i, minimum_enthropy, minimum_enthropy_domains) ==
  IF i = sz * sz THEN [err |-> FALSE, cells |-> minimum_enthropy_domains]
  ELSE LET e == enthropy(ds[i])
       IN  IF e.err THEN [err |-> TRUE, cells |-> {}]
           ELSE IF e.val = 0
             THEN scan_from(sz, ds, i + 1, minimum_enthropy, minimum_enthropy_domains)
           ELSE IF e.val < minimum_enthropy
             THEN scan_from(sz, ds, i + 1, e.val, {i})
           ELSE IF e.val = minimum_enthropy
             THEN scan_from(sz, ds, i + 1, minimum_enthropy, minimum_enthropy_domains \cup {i})
           ELSE scan_from(sz, ds, i + 1, minimum_enthropy, minimum_enthropy_domains)

minimum_cells(sz, ds) == scan_from(sz, ds, 0, StateCount + 1, {})

\* Field::collapse_random: the set of outcomes [ret, domains].
collapse_random(sz, ds) ==
  LET scan == minimum_cells(sz, ds)
  IN  IF scan.err THEN {[ret |-> "Err", domains |-> ds]}
      ELSE IF scan.cells = {} THEN {[ret |-> "Ok(false)", domains |-> ds]}
      ELSE {[ret |-> "Ok(true)", domains |-> [ds EXCEPT ![i] = d]] :
              <<i, d>> \in UNION {{<<j, c>> : c \in collapse(ds[j])} : j \in scan.cells}}

\* The sum of all enthropies as main computes it: Err if any cell is Invalid.
RECURSIVE sum_from(_, _, _)
sum_from(sz, ds, i) ==
  IF i = sz * sz THEN 0 ELSE enthropy(ds[i]).val + sum_from(sz, ds, i + 1)

total_enthropy(sz, ds) ==
  IF \E i \in Cells(sz) : enthropy(ds[i]).err
    THEN Err
    ELSE Ok(sum_from(sz, ds, 0))

(***************************************************************************)
(* main: the solver loop.  pc is the position in main: "loop" at the head  *)
(* of the outer while, "inner" at the head of the inner while, "done"      *)
(* after main has returned.                                                *)
(***************************************************************************)
VARIABLES size, domains, pc, old_enthropy, new_enthropy, printed, result, ret

vars == <<size, domains, pc, old_enthropy, new_enthropy, printed, result, ret>>

any_superposition(sz, ds) == \E i \in Cells(sz) : ds[i].tag = "Superposition"

any_invalid(sz, ds) == \E i \in Cells(sz) : ds[i].tag = "Invalid"

\* The condition of main's outer while.
outer_condition(sz, ds) == any_superposition(sz, ds) /\ ~any_invalid(sz, ds)

Init ==
  /\ size \in 1..MaxSize
  /\ domains = FieldNew(size)
  /\ pc = "loop"
  /\ old_enthropy = 0
  /\ new_enthropy = 0
  /\ printed = <<>>
  /\ result = "running"
  /\ ret = "none"

\* One pass of the outer while up to the inner loop: collapse_random, and on
\* its error the print and the break.
CollapseStep ==
  /\ pc = "loop"
  /\ outer_condition(size, domains)
  /\ \E o \in collapse_random(size, domains) :
       /\ domains' = o.domains
       /\ ret' = o.ret
       /\ IF o.ret = "Err"
            THEN /\ printed' = Append(printed, o.domains)
                 /\ pc' = "break"
                 /\ UNCHANGED <<old_enthropy, new_enthropy>>
            ELSE /\ old_enthropy' = 0
                 /\ new_enthropy' = 1
                 /\ pc' = "inner"
                 /\ printed' = printed
  /\ UNCHANGED <<size, result>>

\* The inner pass without line 320's old_enthropy = new_enthropy.
PropagateStepKeepsOld ==
  /\ pc = "inner"
  /\ old_enthropy # new_enthropy
  /\ \E r \in {propagate(size, domains)} :
     \E t \in {total_enthropy(size, r.domains)} :
         /\ domains' = r.domains
         /\ IF r.err
              THEN /\ ret' = "Err"
                   /\ pc' = "loop"
                   /\ UNCHANGED <<old_enthropy, new_enthropy, result>>
              ELSE /\ ret' = "Ok"
                   /\ old_enthropy' = old_enthropy
                   /\ IF t.err
                        THEN /\ result' = "Err"
                             /\ pc' = "done"
                             /\ new_enthropy' = new_enthropy
                        ELSE /\ new_enthropy' = t.val
                             /\ pc' = "inner"
                             /\ result' = result
  /\ UNCHANGED <<size, printed>>

\* One pass of the inner while: propagate, then the sum of all enthropies,
\* whose error main returns with the ? operator.
PropagateStep ==
  /\ pc = "inner"
  /\ old_enthropy # new_enthropy
  /\ \E r \in {propagate(size, domains)} :
     \E t \in {total_enthropy(size, r.domains)} :
         /\ domains' = r.domains
         /\ IF r.err
              THEN /\ ret' = "Err"
                   /\ pc' = "loop"
                   /\ UNCHANGED <<old_enthropy, new_enthropy, result>>
              ELSE /\ ret' = "Ok"
                   /\ old_enthropy' = new_enthropy
                   /\ IF t.err
                        THEN /\ result' = "Err"
                             /\ pc' = "done"
                             /\ new_enthropy' = new_enthropy
                        ELSE /\ new_enthropy' = t.val
                             /\ pc' = "inner"
                             /\ result' = result
  /\ UNCHANGED <<size, printed>>

\* The inner while ends: back to the head of the outer while.
InnerExit ==
  /\ pc = "inner"
  /\ old_enthropy = new_enthropy
  /\ pc' = "loop"
  /\ UNCHANGED <<size, domains, old_enthropy, new_enthropy, printed, result, ret>>

\* The end of main without line 331's println.
FinishSilently ==
  /\ IF pc = "loop" THEN ~outer_condition(size, domains) ELSE pc = "break"
  /\ result' = "Ok"
  /\ pc' = "done"
  /\ UNCHANGED <<size, domains, old_enthropy, new_enthropy, ret, printed>>

\* The outer while ends (its condition fails, or the break): the final
\* println and Ok(()).
Finish ==
  /\ IF pc = "loop" THEN ~outer_condition(size, domains) ELSE pc = "break"
  /\ printed' = Append(printed, domains)
  /\ result' = "Ok"
  /\ pc' = "done"
  /\ UNCHANGED <<size, domains, old_enthropy, new_enthropy, ret>>

Next == CollapseStep \/ PropagateStep \/ InnerExit \/ Finish

Spec == Init /\ [][Next]_vars

\* main is straight-line sequential code: whenever a step is possible it is taken.
FairSpec == Spec /\ WF_vars(Next)

(***************************************************************************)
(* propagate and collapse_random called directly on a Field: a fresh grid  *)
(* in which up to MaxForced cells hold a value drawn from a pool (any      *)
(* Fixed tile, Invalid, or one of a few candidate lists).                  *)
(***************************************************************************)
\* The sub-list of State::all() holding the tiles of a set.
in_set(S) == LET member(t) == t \in S IN SelectSeq(StateAll, member)

CandidateLists ==
  { in_set({"Empty", "LT"}),
    in_set({"BL"}),
    in_set({t \in States : ~connects_left(t)}) }

PropagatePool ==
  {Collapsed("Empty"), Collapsed("LR"), Collapsed("BT"), Invalid}
    \cup {Superposition(v) : v \in CandidateLists}

CollapsePool ==
  {Collapsed("Empty"), Collapsed("BLTR"), Invalid}
    \cup {Superposition(v) : v \in CandidateLists}
    \cup {Superposition(in_set({t \in States : connects_top(t)}))}

\* The grids of side sz that differ from a fresh grid in at most MaxForced
\* cells, each of those holding a value of the pool.
Grids(sz, pool) ==
  { [i \in Cells(sz) |-> IF i \in DOMAIN g THEN g[i] ELSE DomainDefault] :
      g \in UNION { [F -> pool] : F \in {F \in SUBSET Cells(sz) : Cardinality(F) <= MaxForced} } }

InitCall(sides, pool) ==
  /\ size \in sides
  /\ domains \in Grids(size, pool)
  /\ pc = "call"
  /\ old_enthropy = 0
  /\ new_enthropy = 0
  /\ printed = <<>>
  /\ result = "running"
  /\ ret = "none"

InitPropagate == InitCall(PropagateSides, PropagatePool)

InitCollapse == InitCall(CollapseSides, CollapsePool)

\* A fresh grid in which two adjacent cells, a and the cell to its right or
\* below it, are forced Fixed to any two tiles.
PairGrids(sz) ==
  { [i \in Cells(sz) |-> IF i = a THEN Collapsed(s)
                          ELSE IF i = b THEN Collapsed(t) ELSE DomainDefault] :
      <<a, b, s, t>> \in
        { q \in Cells(sz) \X Cells(sz) \X States \X States :
            \/ q[2] = q[1] + 1 /\ q[1] % sz # sz - 1
            \/ q[2] = q[1] + sz } }

InitPairs ==
  /\ size \in {2, 3}
  /\ domains \in PairGrids(size)
  /\ pc = "call"
  /\ old_enthropy = 0
  /\ new_enthropy = 0
  /\ printed = <<>>
  /\ result = "running"
  /\ ret = "none"

\* A call of Field::propagate.
CallPropagate ==
  /\ pc = "call"
  /\ \E r \in {propagate(size, domains)} :
       /\ domains' = r.domains
       /\ ret' = IF r.err THEN "Err" ELSE "Ok"
  /\ UNCHANGED <<size, pc, old_enthropy, new_enthropy, printed, result>>

\* A call of Field::collapse_random.
CallCollapseRandom ==
  /\ pc = "call"
  /\ \E o \in collapse_random(size, domains) :
       /\ domains' = o.domains
       /\ ret' = o.ret
  /\ UNCHANGED <<size, pc, old_enthropy, new_enthropy, printed, result>>

\* propagate called again and again on any grid of the pool.
SpecPropagate == InitPropagate /\ [][CallPropagate]_vars

\* collapse_random called again and again on any grid of the pool.
SpecCollapse == InitCollapse /\ [][CallCollapseRandom]_vars

\* propagate called on a fresh grid with two adjacent cells forced Fixed.
SpecPairs == InitPairs /\ [][CallPropagate]_vars

\* The Fixed values of the pool: what collapse_random leaves in a cell.
FixedPool == {d \in PropagatePool : d.tag = "Collapsed"}

\* A fresh grid on which up to MaxForced cells have been collapsed.
InitFixedCells == InitCall(PropagateSides, FixedPool)

\* propagate called again and again after those collapses.
SpecFixedCells == InitFixedCells /\ [][CallPropagate]_vars

\* The values collapse is called on: every Fixed value, Invalid, and the
\* Superposition of every list of up to MaxList states, the empty one
\* included, and of all states.
CellPool ==
  {Collapsed(t) : t \in States} \cup {Invalid, DomainDefault}
    \cup {Superposition(in_set(S)) : S \in {T \in SUBSET States : Cardinality(T) <= MaxList}}

InitCell ==
  /\ size = 1
  /\ domains \in {[i \in Cells(1) |-> d] : d \in CellPool}
  /\ pc = "cell"
  /\ old_enthropy = 0
  /\ new_enthropy = 0
  /\ printed = <<>>
  /\ result = "running"
  /\ ret = "none"

\* A call of Domain::collapse on the cell.
CallCollapse ==
  /\ pc = "cell"
  /\ \E d \in collapse(domains[0]) : domains' = [domains EXCEPT ![0] = d]
  /\ ret' = "collapsed"
  /\ UNCHANGED <<size, pc, old_enthropy, new_enthropy, printed, result>>

SpecCell == InitCell /\ [][CallCollapse]_vars

\* A fresh grid handed to the methods of Field.
InitFreshCall ==
  /\ size \in 1..MaxSize
  /\ domains = FieldNew(size)
  /\ pc = "call"
  /\ old_enthropy = 0
  /\ new_enthropy = 0
  /\ printed = <<>>
  /\ result = "running"
  /\ ret = "none"

\* Any sequence of collapse_random and propagate calls on a fresh grid.
SpecCalls == InitFreshCall /\ [][CallPropagate \/ CallCollapseRandom]_vars

\* collapse_random called on a grid of a side the solver runs explore.
CallCollapseRandomSmall == size <= MaxSize /\ CallCollapseRandom

\* Grids reached from a fresh grid by calls of collapse_random and propagate:
\* any sequence of calls on the small sides, and sweeps after up to
\* MaxForced collapses on the larger ones.
SpecReachable ==
  /\ InitFreshCall \/ InitFixedCells
  /\ [][CallPropagate \/ CallCollapseRandomSmall]_vars

\* The solver runs, and any sequence of calls on a fresh grid; main runs on
\* as long as it can.
SpecRunsAndCalls ==
  /\ Init \/ InitFreshCall
  /\ [][Next \/ CallPropagate \/ CallCollapseRandom]_vars
  /\ WF_vars(Next)

\* The solver runs together with propagate called directly on any grid.
SpecSweeps == (Init \/ InitPropagate) /\ [][Next \/ CallPropagate]_vars

(***************************************************************************)
(* Properties of the solver run                                            *)
(***************************************************************************)
AllFixed == \A i \in Cells(size) : domains[i].tag = "Collapsed"

tile_at(x, y) == domains[y * size + x].s

AdjacentPairsCompatible ==
  /\ \A x \in 0..(size - 2), y \in 0..(size - 1) :
       connects_right(tile_at(x, y)) = connects_left(tile_at(x + 1, y))
  /\ \A x \in 0..(size - 1), y \in 0..(size - 2) :
       connects_bottom(tile_at(x, y)) = connects_top(tile_at(x, y + 1))

\* C1: a run that has terminated with every cell Fixed has every horizontally
\* and vertically adjacent pair mutually compatible, and every terminated run
\* ends all-Fixed or with at least one Contradiction cell.
C1_EndState ==
  pc = "done" =>
    /\ AllFixed => AdjacentPairsCompatible
    /\ AllFixed \/ any_invalid(size, domains)

C1_Witness == pc = "done" /\ AllFixed /\ size >= 2 /\ AdjacentPairsCompatible

\* C2: the solver loop always terminates: every run reaches the state after
\* main has returned, whatever the random choices.
C2_Terminates == <>(pc = "done")

C2_Witness == pc = "done" /\ size >= 2 /\ Len(printed) > 0

FinalGridPrinted == Len(printed) > 0 /\ printed[Len(printed)] = domains

Range(v) == {v[i] : i \in 1..Len(v)}

Undetermined(sz, ds) == {i \in Cells(sz) : ds[i].tag = "Superposition"}

\* old is the cell before a step and new the cell after it: new holds no
\* candidate that old did not hold.
NeverEnlarged(old, new) ==
  /\ new.tag = "Superposition" =>
       /\ old.tag = "Superposition"
       /\ Range(new.v) \subseteq Range(old.v)
       /\ Len(new.v) <= Len(old.v)
  /\ (new.tag = "Collapsed" /\ old.tag = "Superposition") => new.s \in Range(old.v)
  /\ (new.tag = "Collapsed" /\ old.tag = "Collapsed") => new.s = old.s
  /\ old.tag = "Invalid" => new.tag = "Invalid"

\* C6: a propagate sweep never enlarges a cell (an Undetermined cell's new
\* candidates are among its old ones, a Fixed cell never becomes
\* Undetermined), and the total enthropy of the grid, where it is defined
\* before and after a step, never grows, in solver runs and in direct calls.
C6_Monotone ==
  [][ /\ \A i \in Cells(size) : NeverEnlarged(domains[i], domains'[i])
      /\ (~total_enthropy(size, domains).err /\ ~total_enthropy(size, domains').err)
           => total_enthropy(size, domains').val <= total_enthropy(size, domains).val ]_vars

\* A direct sweep has narrowed the fresh centre cell of a 3x3 grid to three tiles.
C6_Witness ==
  /\ pc = "call" /\ ret = "Ok" /\ size = 3
  /\ domains[4].tag = "Superposition" /\ Len(domains[4].v) = 3

\* The step is one call of propagate that returned Ok.
SuccessfulSweep ==
  /\ \/ pc = "call"
     \/ pc = "inner" /\ old_enthropy # new_enthropy
  /\ ret' = "Ok"

Settled(sz, ds) == propagate(sz, ds) = [err |-> FALSE, domains |-> ds]

\* C7: a successful sweep that leaves the total enthropy equal to its value
\* before the sweep changed no cell, and one more propagate succeeds and
\* returns the same grid; the grid on which main leaves its inner loop
\* (old_enthropy = new_enthropy) is such a grid.
C7_FixedPoint ==
  /\ [][ ( /\ SuccessfulSweep
           /\ ~total_enthropy(size, domains).err
           /\ ~total_enthropy(size, domains').err
           /\ total_enthropy(size, domains').val = total_enthropy(size, domains).val )
         => (domains' = domains /\ Settled(size, domains')) ]_vars
  /\ []((pc = "inner" /\ old_enthropy = new_enthropy) => Settled(size, domains))

\* main is about to leave its inner loop with Undetermined cells still in the grid.
C7_Witness ==
  /\ pc = "inner" /\ ret = "Ok" /\ old_enthropy = new_enthropy /\ new_enthropy > 0
  /\ Settled(size, domains)

\* Cells a and b are Fixed, b is right of or below a, and every other cell is fresh.
FreshWithPair(a, b) ==
  /\ \/ b = a + 1 /\ a % size # size - 1
     \/ b = a + size
  /\ domains[a].tag = "Collapsed"
  /\ domains[b].tag = "Collapsed"
  /\ \A i \in Cells(size) \ {a, b} : domains[i] = DomainDefault

IncompatiblePair(a, b) ==
  IF b = a + 1
    THEN connects_right(domains[a].s) # connects_left(domains[b].s)
    ELSE connects_bottom(domains[a].s) # connects_top(domains[b].s)

\* C8: on a fresh grid with two adjacent cells Fixed to incompatible tiles,
\* propagate returns Err and leaves at least one cell of the pair Invalid,
\* wherever the pair lies and whatever the two tiles are.
C8_Detects ==
  [][ \A a, b \in Cells(size) :
        (FreshWithPair(a, b) /\ IncompatiblePair(a, b))
          => /\ ret' = "Err"
             /\ domains'[a] = Invalid \/ domains'[b] = Invalid ]_vars

\* The centre of a 3x3 grid was found incompatible with the Fixed cell to its
\* right, after the sweep had narrowed the cell to its left.
C8_Witness ==
  /\ size = 3 /\ ret = "Err"
  /\ domains[4] = Invalid
  /\ domains[5].tag = "Collapsed"
  /\ domains[3].tag = "Superposition" /\ Len(domains[3].v) < StateCount

\* The Undetermined cells with the fewest candidates.
MinCells(sz, ds) ==
  {i \in Undetermined(sz, ds) :
     \A j \in Undetermined(sz, ds) : Len(ds[i].v) <= Len(ds[j].v)}

\* C9: on a grid without Invalid cells collapse_random returns Ok(false) and
\* changes nothing iff no cell is Undetermined; otherwise it returns Ok(true)
\* and exactly one cell changes: a cell with the fewest candidates among the
\* Undetermined cells becomes Fixed to one of its candidates.  Every cell
\* tied at the minimum can be the one chosen.
C9_CollapseRandom ==
  /\ [][ ~any_invalid(size, domains) =>
           IF Undetermined(size, domains) = {}
             THEN ret' = "Ok(false)" /\ domains' = domains
             ELSE /\ ret' = "Ok(true)"
                  /\ \E i \in MinCells(size, domains) :
                       /\ domains'[i].tag = "Collapsed"
                       /\ domains'[i].s \in Range(domains[i].v)
                       /\ \A j \in Cells(size) \ {i} : domains'[j] = domains[j] ]_vars
  /\ [](~any_invalid(size, domains) =>
          \A i \in MinCells(size, domains) :
            \E o \in collapse_random(size, domains) :
              o.ret = "Ok(true)" /\ o.domains[i].tag = "Collapsed")

\* The last of four tied cells of a 2x2 grid was the one collapsed.
C9_Witness ==
  /\ size = 2 /\ ret = "Ok(true)"
  /\ domains[3].tag = "Collapsed"
  /\ \A i \in 0..2 : domains[i] = DomainDefault

\* C10: collapse_random returns Err whenever a cell of the grid is Invalid,
\* wherever that cell lies, and changes no cell.
C10_ErrOnInvalid ==
  [][ any_invalid(size, domains) => (ret' = "Err" /\ domains' = domains) ]_vars

\* The call returned Err on a grid whose Invalid cell comes after an
\* Undetermined and a Fixed cell in the scan.
C10_Witness ==
  /\ size = 2 /\ ret = "Err"
  /\ domains[0].tag = "Superposition"
  /\ domains[1].tag = "Collapsed"
  /\ domains[3].tag = "Invalid"


\* C11: on a 1x1 grid the solver run ends with the cell Fixed, collapsing the
\* fresh cell can give each of the 12 tiles and the Fixed cell then never
\* changes, and no sequence of collapse_random and propagate calls makes the
\* cell Invalid or returns an error.
C11_SingleCell ==
  /\ [](size = 1 => (domains[0].tag # "Invalid" /\ ret # "Err" /\ result # "Err"))
  /\ []((size = 1 /\ pc = "done") => domains[0].tag = "Collapsed")
  /\ []((size = 1 /\ domains = FieldNew(1)) =>
          \A t \in States : \E o \in collapse_random(1, domains) :
             o.domains[0] = Collapsed(t))
  /\ [][(size = 1 /\ domains[0].tag = "Collapsed") => domains' = domains]_vars
  /\ ((size = 1 /\ pc = "loop") ~> (pc = "done"))

\* The solver run on the 1x1 grid ended with the cell Fixed to the last tile.
C11_Witness ==
  /\ size = 1 /\ pc = "done" /\ result = "Ok"
  /\ domains[0] = Collapsed(StateAll[StateCount])

\* What get returns by the claim: the error iff a coordinate is outside the
\* side, else the cell at the row-major index.
GetContract(x, y) ==
  get(size, domains, x, y) =
    IF x >= size \/ y >= size THEN OutOfBoundsError ELSE domains[y * size + x]

\* C12: get (and get_mut) return OutOfBoundsError iff x >= size or
\* y >= size and otherwise the cell at index y * size + x; for every cell of
\* the sweep the current cell is found and a neighbour beyond an edge is None,
\* any other neighbour the adjacent cell.
C12_BoundsChecked ==
  /\ \A x, y \in 0..(size + 1) : GetContract(x, y)
  /\ \A x, y \in 0..(size - 1) :
       /\ get(size, domains, x, y) # OutOfBoundsError
       /\ left_of(size, domains, x, y) =
            IF x = 0 THEN None ELSE domains[y * size + x - 1]
       /\ right_of(size, domains, x, y) =
            IF x = size - 1 THEN None ELSE domains[y * size + x + 1]
       /\ top_of(size, domains, x, y) =
            IF y = 0 THEN None ELSE domains[(y - 1) * size + x]
       /\ bottom_of(size, domains, x, y) =
            IF y = size - 1 THEN None ELSE domains[(y + 1) * size + x]

\* A sweep over a 3x3 grid has run through the lookups of every cell.
C12_Witness ==
  /\ size = 3 /\ ret = "Ok" /\ DOMAIN domains = 0..8
  /\ get(size, domains, 3, 0) = OutOfBoundsError
  /\ get(size, domains, 2, 2) = domains[8]


\* C13: for all tiles A and B (any two tiles Fixed in the grid, in both
\* orders), fits_left(A, B) = fits_right(B, A) and
\* fits_top(A, B) = fits_bottom(B, A), where fits_left(A, B) holds iff
\* A's left arm equals B's right arm and fits_bottom(A, B) iff A's bottom
\* arm equals B's top arm.
C13_FitsSymmetric ==
  \A A, B \in {domains[i].s : i \in {j \in Cells(size) : domains[j].tag = "Collapsed"}} :
    /\ fits_left(A, B) = fits_right(B, A)
    /\ fits_top(A, B) = fits_bottom(B, A)
    /\ fits_left(A, B) = (connects_left(A) = connects_right(B))
    /\ fits_bottom(A, B) = (connects_bottom(A) = connects_top(B))
    /\ fits_right(B, A) = (connects_right(B) = connects_left(A))
    /\ fits_top(A, B) = (connects_top(A) = connects_bottom(B))

\* A sweep has accepted a horizontal pair of Fixed tiles joined by an arm.
C13_Witness ==
  /\ size = 2 /\ ret = "Ok"
  /\ domains[0].tag = "Collapsed" /\ domains[1].tag = "Collapsed"
  /\ connects_right(domains[0].s) /\ fits_left(domains[1].s, domains[0].s)
  /\ fits_right(domains[0].s, domains[1].s)

\* Whether tile t is compatible with neighbour n across the arm mine of t
\* and the opposite arm theirs of the neighbour's tiles.
SideFits(mine, n, theirs) ==
  CASE n.tag = "None" -> TRUE
    [] n.tag = "Collapsed" -> mine = theirs[n.s]
    [] n.tag = "Superposition" -> \E i \in 1..Len(n.v) : mine = theirs[n.v[i]]
    [] OTHER -> FALSE

ArmLeft == [t \in States |-> connects_left(t)]

ArmRight == [t \in States |-> connects_right(t)]

ArmTop == [t \in States |-> connects_top(t)]

ArmBottom == [t \in States |-> connects_bottom(t)]

NeighbourAt(x, y) ==
  IF x < 0 \/ y < 0 \/ x >= size \/ y >= size THEN None ELSE domains[y * size + x]

\* The four-side test of the claim for tile t at cell (x, y).
Survives(t, x, y) ==
  /\ SideFits(ArmLeft[t], NeighbourAt(x - 1, y), ArmRight)
  /\ SideFits(ArmRight[t], NeighbourAt(x + 1, y), ArmLeft)
  /\ SideFits(ArmTop[t], NeighbourAt(x, y - 1), ArmBottom)
  /\ SideFits(ArmBottom[t], NeighbourAt(x, y + 1), ArmTop)

\* The cell the claim prescribes for (x, y) after its re-evaluation.
Prescribed(x, y) ==
  LET cell == domains[y * size + x]
      keeps(t) == Survives(t, x, y)
      F == SelectSeq(cell.v, keeps)
  IN  IF cell.tag = "Collapsed"
        THEN (IF Survives(cell.s, x, y) THEN cell ELSE Invalid)
        ELSE IF Len(F) = 0 THEN Invalid
        ELSE IF Len(F) = 1 THEN Collapsed(F[1])
        ELSE Superposition(F)

NoInvalidNeighbour(x, y) ==
  \A d \in {<<-1, 0>>, <<1, 0>>, <<0, -1>>, <<0, 1>>} :
     NeighbourAt(x + d[1], y + d[2]).tag # "Invalid"

\* C14: re-evaluating a Fixed or Undetermined cell none of whose neighbours
\* is Invalid succeeds and writes the cell the four-side filter prescribes:
\* Invalid for an empty filter result, Fixed for a single tile, otherwise
\* Undetermined over the surviving tiles; a Fixed cell stays or becomes Invalid.
C14_NarrowingRule ==
  \A x, y \in 0..(size - 1) :
    (domains[y * size + x].tag # "Invalid" /\ NoInvalidNeighbour(x, y))
      => propagate_cell(size, domains, x, y) =
           [err |-> FALSE,
            domains |-> [domains EXCEPT ![y * size + x] = Prescribed(x, y)]]

\* A sweep narrowed the corner of a 2x2 grid between two Fixed cells to the
\* four tiles with a right and a bottom arm.
C14_Witness ==
  /\ size = 2 /\ ret = "Ok" /\ pc = "call"
  /\ domains[1] = Collapsed("LR") /\ domains[2] = Collapsed("BT")
  /\ domains[0].tag = "Superposition" /\ Len(domains[0].v) = 4
  /\ Prescribed(0, 0) = domains[0]


\* The sweep of propagate on grid ds up to, not including, its k-th cell:
\* whether it has returned Err by then, and the grid at that moment.
RECURSIVE SweepBefore(_, _, _)
SweepBefore(sz, ds, k) ==
  IF k = 1 THEN [err |-> FALSE, domains |-> ds]
  ELSE CHOOSE out \in
         { IF p.err THEN p
           ELSE propagate_cell(sz, p.domains, sweep_order(sz)[k - 1][1],
                               sweep_order(sz)[k - 1][2]) :
           p \in {SweepBefore(sz, ds, k - 1)} } : TRUE

HasInvalidNeighbour(sz, ds, x, y) ==
  \E d \in {<<-1, 0>>, <<1, 0>>, <<0, -1>>, <<0, 1>>} :
     /\ x + d[1] \in 0..(sz - 1)
     /\ y + d[2] \in 0..(sz - 1)
     /\ ds[(y + d[2]) * sz + x + d[1]].tag = "Invalid"

\* C15: whenever the sweep of propagate over the grid comes to examine a
\* cell that has an Invalid neighbour, propagate returns Err with the grid
\* as it was at that moment: the examined cell is not modified and no later
\* cell is examined.
C15_FailsImmediately ==
  \A k \in 1..(size * size) :
    \A g \in {SweepBefore(size, domains, k)} :
      (/\ ~g.err
       /\ HasInvalidNeighbour(size, g.domains, sweep_order(size)[k][1],
                              sweep_order(size)[k][2]))
        => propagate(size, domains) = [err |-> TRUE, domains |-> g.domains]


CellIn(ds, x, y) ==
  IF x < 0 \/ y < 0 \/ x >= size \/ y >= size THEN None ELSE ds[y * size + x]

\* Cell i re-evaluated by a row-major in-place sweep from grid before to
\* grid after: its own value and its right and bottom neighbours are those
\* of before, its left and top neighbours those of after.
InPlaceValue(before, after, i) ==
  LET x == i % size
      y == i \div size
      own == before[i]
      fits(t) ==
        /\ SideFits(ArmLeft[t], CellIn(after, x - 1, y), ArmRight)
        /\ SideFits(ArmRight[t], CellIn(before, x + 1, y), ArmLeft)
        /\ SideFits(ArmTop[t], CellIn(after, x, y - 1), ArmBottom)
        /\ SideFits(ArmBottom[t], CellIn(before, x, y + 1), ArmTop)
      F == SelectSeq(own.v, fits)
  IN  IF own.tag = "Collapsed" THEN (IF fits(own.s) THEN own ELSE Invalid)
      ELSE IF Len(F) = 0 THEN Invalid
      ELSE IF Len(F) = 1 THEN Collapsed(F[1])
      ELSE Superposition(F)

\* C16: a call of propagate is one in-place sweep in row-major order: each
\* cell it re-evaluates is computed from the already updated left and top
\* neighbours and the not yet updated right and bottom neighbours; a sweep
\* that returns Err has done so for the cells before the failing one and
\* left the others as they were.
C16_InPlaceSweep ==
  [][ pc = "call" =>
        IF ret' = "Ok"
          THEN \A i \in Cells(size) : domains'[i] = InPlaceValue(domains, domains', i)
          ELSE \E k \in Cells(size) :
                 /\ \A i \in 0..(k - 1) : domains'[i] = InPlaceValue(domains, domains', i)
                 /\ \A i \in k..(size * size - 1) : domains'[i] = domains[i] ]_vars

\* A fresh 3x3 grid with the cells left of, above and below the centre Fixed to LR.
ThreeAroundCentre ==
  [i \in Cells(3) |-> IF i \in {1, 3, 7} THEN Collapsed("LR") ELSE DomainDefault]

\* The sweep over that grid fixed the centre to LR and, in the same sweep,
\* narrowed the cell right of it to the tiles with a left arm, which an
\* update of all cells at once would not have done.
C16_Witness ==
  /\ pc = "call" /\ ret = "Ok" /\ size = 3
  /\ domains = propagate(3, ThreeAroundCentre).domains
  /\ domains[4] = Collapsed("LR")
  /\ \A i \in 1..Len(domains[5].v) : connects_left(domains[5].v[i])
  /\ domains # propagate_double_buffered(3, ThreeAroundCentre).domains


\* C17: collapse leaves a Fixed and an Invalid cell unchanged, makes an
\* Undetermined cell with candidates Fixed to one of them, each candidate
\* being a possible outcome, and makes an Undetermined cell without
\* candidates Invalid.
C17_Collapse ==
  /\ [][ pc = "cell" =>
          /\ domains[0].tag \in {"Collapsed", "Invalid"} => domains'[0] = domains[0]
          /\ (domains[0].tag = "Superposition" /\ Len(domains[0].v) > 0) =>
               (domains'[0].tag = "Collapsed" /\ domains'[0].s \in Range(domains[0].v))
          /\ (domains[0].tag = "Superposition" /\ Len(domains[0].v) = 0) =>
               domains'[0] = Invalid ]_vars
  /\ []((pc = "cell" /\ domains[0].tag = "Superposition") =>
          \A t \in Range(domains[0].v) : Collapsed(t) \in collapse(domains[0]))

\* collapse has fixed the cell to the last of the tiles.
C17_Witness ==
  /\ pc = "cell" /\ ret = "collapsed"
  /\ domains[0] = Collapsed(StateAll[StateCount])


WellFormed(d) ==
  /\ Len(d.v) >= 1
  /\ Len(d.v) <= StateCount
  /\ Range(d.v) \subseteq States
  /\ \A i, j \in 1..Len(d.v) : i # j => d.v[i] # d.v[j]
  /\ enthropy(d) \notin {Ok(0), Err}
  /\ Invalid \notin collapse(d)

\* C20: in every grid reached from a fresh grid by collapse_random and
\* propagate calls, each Undetermined cell holds between 1 and 12 distinct
\* tiles, at least 2 once a successful sweep has re-evaluated it, so its
\* enthropy is neither 0 nor above 12 and collapse on it does not give Invalid.
C20_WellFormed ==
  \A i \in Undetermined(size, domains) :
    /\ WellFormed(domains[i])
    /\ ret = "Ok" => Len(domains[i].v) >= 2

\* A sweep over a 3x3 grid has fixed the centre, left with one tile by its
\* three Fixed neighbours, and narrowed the cell right of it.
C20_Witness ==
  /\ pc = "call" /\ ret = "Ok" /\ size = 3
  /\ domains[4].tag = "Collapsed"
  /\ {domains[1].tag, domains[3].tag, domains[7].tag} = {"Collapsed"}
  /\ domains[5].tag = "Superposition" /\ Len(domains[5].v) \in 2..(StateCount - 1)

=============================================================================
